---- MODULE Spec2Model ----
(***************************************************************************)
(* Wonder Shuffle: the draw resolution of CardGame (main.js) over          *)
(* DeckManager and the selection state of EffectsRenderer.                 *)
(*                                                                         *)
(* The handlers of CardGame run to their first await without interruption; *)
(* everything they write to the game state is written before that await.   *)
(* The awaited GameRenderer.renderCards contains no await of its own, so   *)
(* the continuation (updateEffectsDisplay) runs as a microtask before any  *)
(* other event is dispatched: each handler is one action, its rendering of *)
(* the effects panel included.                                             *)
(*                                                                         *)
(* The effects panel is the class "empty" of its container and the items   *)
(* it shows.  A container with that class is hidden: the children that     *)
(* renderEffects leaves in it are not shown and cannot be operated, and    *)
(* the next render that removes the class replaces them all.               *)
(*                                                                         *)
(* The pseudo-random generator is a nondeterministic stream of card picks: *)
(* a handler invocation receives the stream `p` and consumes it in call    *)
(* order.  The explored streams are arbitrary in their first MaxPrefix     *)
(* picks and select Filler(deck) from then on; on the two standard decks   *)
(* the arbitrary picks select cards of Focus.                              *)
(*                                                                         *)
(* EffectsSpec applies renderEffects and rollAllDice to outcomes of any     *)
(* cards, an identifier without a rule included: the dice roll their       *)
(* lowest or their highest face in the first MaxRollPrefix rolls, and 1    *)
(* from then on.                                                           *)
(*                                                                         *)
(* AsyncSpec takes the same handlers in two steps, up to their await and   *)
(* from it on, with the next event dispatched when no microtask is left.   *)
(*                                                                         *)
(* DiceSpec applies rollDiceExpression and rollDiceInText to texts of      *)
(* words and dice expressions, on any values of the generator.             *)
(*                                                                         *)
(* CanvasSpec is the canvas: GameRenderer.renderCards called for any       *)
(* outcome, its timers, the per-card callbacks at their awaits of the      *)
(* textures, the flip animation of CardAnimator and CardHoverManager on    *)
(* the ticker.  The handlers of CardGame write the canvas and never read   *)
(* it: Spec, AsyncSpec, EffectsSpec and DiceSpec leave it as constructed.  *)
(* The idle up-and-down animation of a dealt card is left aside.           *)
(***************************************************************************)
EXTENDS Integers, Sequences, FiniteSets

VARIABLES
  deck,             \* DeckManager.deck, as its member set (shuffleDeck only reorders it)
  deckSize,         \* DeckManager.deckSize
  drawnCards,       \* CardGame.drawnCards
  chaosSelections,  \* EffectsRenderer.chaosSelections
  orderSelections,  \* EffectsRenderer.orderSelections
  coinSelection,    \* EffectsRenderer.coinSelection
  effectsEmpty,     \* effectsDisplay.classList contains "empty"
  effectsList,      \* the children of effectsList the panel shows, in order
  last,             \* the most recent event: its kind, its argument, the path it
                    \* returned on and the cards it sampled from the deck, in order
  renderCalls,          \* the calls of GameRenderer.renderCards so far
  cardSprites,          \* GameRenderer.cardSprites
  children,             \* scrollContainer.children
  activeRenderTimeouts, \* GameRenderer.activeRenderTimeouts
  activeResizeTimeout,  \* GameRenderer.activeResizeTimeout
  timers,               \* the timers setTimeout set that neither fired nor were cleared
  callbacks,            \* the per-card callbacks suspended at an await of createCardSprite
  textureCache,         \* the keys of CardRenderer.textureCache, and "backside"
                        \* when CardRenderer.backsideTexture is set
  hoveredCard,          \* CardHoverManager.hoveredCard
  cursor                \* what CardHoverManager.cursorX and cursorY point at

gameVars ==
  <<deck, deckSize, drawnCards, chaosSelections, orderSelections, coinSelection,
    effectsEmpty, effectsList, last>>

canvasVars ==
  <<renderCalls, cardSprites, children, activeRenderTimeouts, activeResizeTimeout,
    timers, callbacks, textureCache, hoveredCard, cursor>>

vars ==
  <<deck, deckSize, drawnCards, chaosSelections, orderSelections, coinSelection,
    effectsEmpty, effectsList, last,
    renderCalls, cardSprites, children, activeRenderTimeouts, activeResizeTimeout,
    timers, callbacks, textureCache, hoveredCard, cursor>>

selectionVars == <<chaosSelections, orderSelections, coinSelection>>

\* no timer, no sprite
NoTimeout == [call |-> 0, index |-> 0]
NoCard == [call |-> 0, index |-> 0]

\* The canvas after the constructors of GameRenderer, CardRenderer and
\* CardHoverManager.
CanvasInit ==
  /\ renderCalls = 0
  /\ cardSprites = <<>>
  /\ children = <<>>
  /\ activeRenderTimeouts = <<>>
  /\ activeResizeTimeout = NoTimeout
  /\ timers = {}
  /\ callbacks = {}
  /\ textureCache = {}
  /\ hoveredCard = NoCard
  /\ cursor = [n |-> 0, index |-> 0]

----------------------------------------------------------------------------
(* constants.js *)

TAROT_CARDS_FULL ==
  {"beginning", "champion", "chancellor", "chaos", "coin", "crown", "dawn", "day",
   "destiny", "dusk", "end", "isolation", "justice", "knife", "lock", "mischief",
   "monster", "mystery", "night", "order", "student", "vulture"}

TAROT_CARDS_REDUCED ==
  {"day", "night", "dawn", "crown", "lock", "champion", "chaos", "order",
   "beginning", "end", "monster", "knife", "mischief"}

DECK_SIZES_FULL == 22
DECK_SIZES_REDUCED == 13
DEFAULT_SIZE == DECK_SIZES_FULL
MAX_DRAW == 20
HOVERED_CARD_ZINDEX == 1000

ChaosDamageTypes == <<"acid", "cold", "fire", "lightning", "thunder">>
OrderDamageTypes == <<"force", "necrotic", "poison", "psychic", "radiant">>
CoinChoices == {"jewelry", "gemstones"}

----------------------------------------------------------------------------
(* Bounds of the exploration *)

MaxPrefix == 2     \* picks of a stream that are arbitrary; later picks select Filler
MaxSelIdx == 1     \* dropdowns of one resistance card whose selection is changed
MaxTypes == 2      \* damage types (in list order) a dropdown is set to
MaxBonusLen == 2   \* bonus draws are explored on outcomes of at most this length
MaxOutcomeLen == 2 \* outcomes of any cards given to calculateEffects have at most this length
MaxStack == 3      \* outcomes of one repeated card have at most this length
MaxRollPrefix == 2 \* dice that roll an arbitrary face; later dice roll 1
MaxQuantity == 3   \* dice of one expression given to rollDiceExpression
MaxTextLen == 3    \* words and dice expressions of a text given to rollDiceInText
MaxDice == 3       \* values of the generator that are arbitrary in these calls; later ones are 0
MaxRenders == 2
MaxCards == 2

\* The cards the arbitrary picks select on the 13- and the 22-card deck.
Focus == {"chaos", "isolation", "mischief", "mystery"}

\* The custom-deck checkbox selections explored.
CustomChoices == {{}, {"mystery"}, {"coin", "order"}, {"isolation", "mystery"}}

\* Numbers as the handlers receive them: an integer v, v + 1/2, or NaN.
Num(v) == [k |-> "int", v |-> v]
Frac(v) == [k |-> "frac", v |-> v]
NaN == [k |-> "nan", v |-> 0]
NoCount == [k |-> "none", v |-> 0]

Counts == {Num(-1), Num(0), Num(1), Num(2), Num(MAX_DRAW), Num(MAX_DRAW + 1), Frac(1), NaN}

\* What parseInt(input.value, 10) yields in the draw button's listener.
ParsedCounts == {c \in Counts : c.k \in {"int", "nan"}}

----------------------------------------------------------------------------
(* Array helpers, with JavaScript's 0-based indices *)

Includes(s, x) == \E i \in 1..Len(s) : s[i] = x

IndexOf(s, x) ==
  IF Includes(s, x)
  THEN (CHOOSE i \in 1..Len(s) : s[i] = x /\ \A j \in 1..(i - 1) : s[j] # x) - 1
  ELSE -1

\* slice(from, to), which stops at the end of the array
Slice(s, from, to) == SubSeq(s, from + 1, IF to < Len(s) THEN to ELSE Len(s))

CountOf(s, x) == Cardinality({i \in 1..Len(s) : s[i] = x})

\* splice(i, 1)
Splice1(s, i) == SubSeq(s, 1, i) \o SubSeq(s, i + 2, Len(s))

Fill(n, x) == [i \in 1..n |-> x]

----------------------------------------------------------------------------
(* The pseudo-random stream *)

Filler(d) ==
  IF "champion" \in d THEN "champion"
  ELSE IF "isolation" \in d THEN "isolation"
  ELSE CHOOSE c \in d : TRUE

Explored(d) == IF d \in {TAROT_CARDS_FULL, TAROT_CARDS_REDUCED} THEN d \cap Focus ELSE d

Streams(d) ==
  IF d = {} THEN {<<>>} ELSE [1..MaxPrefix -> Explored(d)]

Pick_Exhausting(d, p, k) ==
  IF k > Cardinality(d) THEN "undefined"
  ELSE IF k <= Len(p) THEN p[k] ELSE Filler(d)

\* The card selected by the k-th randomInt(0, deck.length - 1) of an invocation.
Pick(d, p, k) == IF k <= Len(p) THEN p[k] ELSE Filler(d)

----------------------------------------------------------------------------
(* DeckManager *)

IsEmpty_Never(d) == FALSE

\* isEmpty()
IsEmpty(d) == d = {}

DrawCards_DeckLimited(d, count, p, pos) ==
  IF count > Cardinality(d)
  THEN [null |-> TRUE, cards |-> <<>>]
  ELSE [null |-> FALSE, cards |-> [i \in 1..count |-> Pick(d, p, pos + i)]]

\* drawCards(count), called when `pos` picks of the stream are consumed.
DrawCards(d, count, p, pos) ==
  IF d = {}
  THEN [null |-> TRUE, cards |-> <<>>]
  ELSE [null |-> FALSE, cards |-> [i \in 1..count |-> Pick(d, p, pos + i)]]

\* createDeck(size, customCards): the new deck and deckSize.  `size` is the
\* radio's value: "custom", or the text of a number.
ParseInt(value) == CASE value = "13" -> 13 [] value = "22" -> 22

CreateDeck_StaleSize(size, customCards) ==
  IF size = "custom"
  THEN [deck |-> customCards, deckSize |-> deckSize]
  ELSE LET targetSize == ParseInt(size)
       IN [deck |-> IF targetSize = DECK_SIZES_REDUCED
                    THEN TAROT_CARDS_REDUCED
                    ELSE TAROT_CARDS_FULL,
           deckSize |-> targetSize]

CreateDeck(size, customCards) ==
  IF size = "custom"
  THEN [deck |-> customCards, deckSize |-> Cardinality(customCards)]
  ELSE LET targetSize == ParseInt(size)
       IN [deck |-> IF targetSize = DECK_SIZES_REDUCED
                    THEN TAROT_CARDS_REDUCED
                    ELSE TAROT_CARDS_FULL,
           deckSize |-> targetSize]

\* randomInt calls of shuffleDeck on a deck of n cards.
ShuffleCalls(n) == IF n > 1 THEN n - 1 ELSE 0

----------------------------------------------------------------------------
(* EffectsRenderer *)

\* resetSelections(drawnCards)
ResetSelections_KeepCoin(cards) ==
  <<Fill(CountOf(cards, "chaos"), "acid"), Fill(CountOf(cards, "order"), "force"), coinSelection>>

ResetSelections(cards) ==
  <<Fill(CountOf(cards, "chaos"), "acid"), Fill(CountOf(cards, "order"), "force"), "jewelry">>

\* clearSelections()
ClearSelections == <<(<<>>), (<<>>), "jewelry">>

\* the three fields the two methods above assign
StoreSelections(sel) ==
  /\ chaosSelections' = sel[1]
  /\ orderSelections' = sel[2]
  /\ coinSelection' = sel[3]

----------------------------------------------------------------------------
(* CardEffects *)

\* A text is the sequence of its words, numbers and dice expressions; the words
\* that do not vary are carried by the leading word, which names the template.
Word(w) == [t |-> "word", w |-> w, q |-> 0, s |-> 0, kh |-> FALSE]
Number(n) == [t |-> "num", w |-> "", q |-> n, s |-> 0, kh |-> FALSE]
Dice(q, s, kh) == [t |-> "dice", w |-> "", q |-> q, s |-> s, kh |-> kh]

NoText == <<>>

\* What getEffect returns: null, a string, or an object.
Null == [kind |-> "null", type |-> "", isCurse |-> FALSE, count |-> 0, text |-> NoText]
String(text) ==
  [kind |-> "string", type |-> "", isCurse |-> FALSE, count |-> 0, text |-> text]
CurseObject_Unflagged(text) ==
  [kind |-> "object", type |-> "", isCurse |-> FALSE, count |-> 0, text |-> text]

CurseObject(text) ==
  [kind |-> "object", type |-> "", isCurse |-> TRUE, count |-> 0, text |-> text]
TypedObject(type, count, text) ==
  [kind |-> "object", type |-> type, isCurse |-> FALSE, count |-> count, text |-> text]

\* "An" / count, "One" / count
CountWord(count, one) == IF count = 1 THEN Word(one) ELSE Number(count)
WordForm(count, singular, plural) == IF count = 1 THEN Word(singular) ELSE Word(plural)

GetEffect_NoStacking(cardName, count) ==
  IF count = 0 THEN Null
  ELSE CASE cardName = "beginning" -> String(<<Word("beginning"), Dice(2, 10, FALSE)>>)
         [] cardName = "champion" -> String(<<Word("champion"), Number(1)>>)
         [] cardName = "day" -> String(<<Word("day"), Number(1)>>)
         [] cardName = "end" -> CurseObject(<<Word("end"), Dice(2, 10, FALSE)>>)
         [] cardName = "lock" -> String(<<Word("lock"), Dice(1, 3, FALSE)>>)
         [] cardName = "monster" -> CurseObject(<<Word("monster"), Dice(1, 4, FALSE)>>)
         [] OTHER -> Null

\* getEffect(cardName, count)
GetEffect(cardName, count) ==
  IF count = 0 THEN Null
  ELSE CASE cardName = "beginning" -> String(<<Word("beginning"), Dice(2 * count, 10, FALSE)>>)
         [] cardName = "champion" -> String(<<Word("champion"), Number(count)>>)
         [] cardName = "chancellor" -> String(<<Word("chancellor")>>)
         [] cardName = "chaos" -> TypedObject("chaos", count, NoText)
         [] cardName = "coin" -> TypedObject("coin", count, NoText)
         [] cardName = "crown" -> String(<<Word("crown")>>)
         [] cardName = "dawn" -> String(<<Word("dawn")>>)
         [] cardName = "day" -> String(<<Word("day"), Number(count)>>)
         [] cardName = "destiny" -> String(<<Word("destiny")>>)
         [] cardName = "dusk" -> CurseObject(<<Word("dusk")>>)
         [] cardName = "end" -> CurseObject(<<Word("end"), Dice(2 * count, 10, FALSE)>>)
         [] cardName = "isolation" -> CurseObject(<<Word("isolation"), Dice(1, 4, FALSE)>>)
         [] cardName = "justice" -> String(<<Word("justice")>>)
         [] cardName = "knife" ->
              String(<<Word("knife"), CountWord(count, "An"),
                       WordForm(count, "weapon", "weapons")>>)
         [] cardName = "lock" -> String(<<Word("lock"), Dice(count, 3, FALSE)>>)
         [] cardName = "monster" -> CurseObject(<<Word("monster"), Dice(count, 4, FALSE)>>)
         [] cardName = "mystery" -> CurseObject(<<Word("mystery")>>)
         [] cardName = "night" -> String(<<Word("night")>>)
         [] cardName = "order" -> TypedObject("order", count, NoText)
         [] cardName = "student" -> String(<<Word("student")>>)
         [] cardName = "vulture" ->
              CurseObject(<<Word("vulture"), CountWord(count, "One"),
                            WordForm(count, "item", "items")>>)
         [] cardName = "mischief" ->
              TypedObject("mischief", count,
                          <<Word("mischief"), CountWord(count, "an"),
                            WordForm(count, "item", "items"), Number(count * 2)>>)
         [] OTHER -> Null

MapIncrement_Overwrite(counts, key) ==
  IF \E k \in 1..Len(counts) : counts[k].key = key
  THEN counts
  ELSE Append(counts, [key |-> key, value |-> 1])

\* counts.set(card, (counts.get(card) || 0) + 1): the entries keep insertion order
MapIncrement(counts, key) ==
  IF \E k \in 1..Len(counts) : counts[k].key = key
  THEN LET at == CHOOSE k \in 1..Len(counts) : counts[k].key = key
       IN [counts EXCEPT ![at] = [key |-> key, value |-> counts[at].value + 1]]
  ELSE Append(counts, [key |-> key, value |-> 1])

\* The forEach loop over the elements lo..hi of the list, each one passed to
\* the increment above in the order of the list: the first half of the range
\* is counted, then the second half goes on from its counts.
RECURSIVE TallyFrom(_, _, _, _)
TallyFrom(list, lo, hi, counts) ==
  IF lo > hi THEN counts
  ELSE IF lo = hi THEN MapIncrement(counts, list[lo])
  ELSE LET mid == (lo + hi) \div 2
       IN CHOOSE result \in {TallyFrom(list, mid + 1, hi, firstHalf) :
                               firstHalf \in {TallyFrom(list, lo, mid, counts)}} : TRUE

\* countCards(drawnCards)
CountCards(cards) == TallyFrom(cards, 1, Len(cards), <<>>)

\* one effectData, as pushed to curseEffects or regularEffects
CurseEffectData(cardName, count, effect) ==
  [card |-> cardName, count |-> count, effect |-> String(effect.text)]
EffectData(cardName, count, effect) ==
  [card |-> cardName, count |-> count, effect |-> effect]

RECURSIVE EffectsFrom(_, _, _, _)
EffectsFrom(cardCounts, k, regularEffects, curseEffects) ==
  IF k > Len(cardCounts)
  THEN [regular |-> regularEffects, curses |-> curseEffects]
  ELSE LET cardName == cardCounts[k].key
           count == cardCounts[k].value
           effect == GetEffect(cardName, count)
       IN IF effect.kind # "null"
          THEN IF effect.kind = "object" /\ effect.isCurse
               THEN EffectsFrom(cardCounts, k + 1, regularEffects,
                                Append(curseEffects, CurseEffectData(cardName, count, effect)))
               ELSE EffectsFrom(cardCounts, k + 1,
                                Append(regularEffects, EffectData(cardName, count, effect)),
                                curseEffects)
          ELSE EffectsFrom(cardCounts, k + 1, regularEffects, curseEffects)

\* calculateEffects(drawnCards)
CalculateEffects(cards) ==
  IF Len(cards) = 0
  THEN [regular |-> <<>>, curses |-> <<>>]
  ELSE EffectsFrom(CountCards(cards), 1, <<>>, <<>>)

CalculateChaosDurations_PerSelection(selections) ==
  [k \in 1..Len(selections) |-> [key |-> selections[k], value |-> 1]]

\* calculateChaosDurations(selections)
CalculateChaosDurations(selections) == TallyFrom(selections, 1, Len(selections), <<>>)

\* calculateOrderDurations(selections)
CalculateOrderDurations(selections) == TallyFrom(selections, 1, Len(selections), <<>>)

----------------------------------------------------------------------------
(* EffectRenderers: the items appended to effectsList *)

\* One child of effectsList: the card name with its count, the class
\* "curse-effect", the description text, the dropdowns with their selected
\* values, the plain labels that replace them once the dice are rolled, the
\* duration items and the "Draw x2" button.
Item(card, count, isCurse, type, description, dropdowns, durations, button) ==
  [card |-> card, count |-> count, isCurse |-> isCurse, type |-> type,
   description |-> description, dropdowns |-> dropdowns, labels |-> <<>>,
   durations |-> durations, button |-> button]

\* renderStandardEffect(effect, effectsList, isCurse)
RenderStandardEffect(effect, isCurse) ==
  Item(effect.card, effect.count, isCurse, "standard", effect.effect.text, <<>>, <<>>, FALSE)

\* The option a select shows: the one marked selected, else the first.
SelectedOption(selections, i, damageTypes) ==
  IF i < Len(selections) /\ Includes(damageTypes, selections[i + 1])
  THEN selections[i + 1]
  ELSE damageTypes[1]

DiceNotation_AlwaysSum(d12Count) == Dice(d12Count, 12, FALSE)

\* d12Count === 1 ? `${d12Count}d12` : `${d12Count}d12kh1`
DiceNotation(d12Count) ==
  IF d12Count = 1 THEN Dice(d12Count, 12, FALSE) ELSE Dice(d12Count, 12, TRUE)

\* the "chaos-duration-item" elements, one per entry of the durations map
DurationItems(durations) ==
  [k \in 1..Len(durations) |-> <<Word(durations[k].key), DiceNotation(durations[k].value)>>]

\* renderChaosEffect(effect, effectsList, selections, onSelectionChange)
RenderChaosEffect(effect, selections) ==
  Item(effect.card, effect.count, FALSE, "chaos", NoText,
       [i \in 1..effect.count |-> SelectedOption(selections, i - 1, ChaosDamageTypes)],
       DurationItems(CalculateChaosDurations(selections)), FALSE)

\* renderOrderEffect(effect, effectsList, selections, onSelectionChange)
RenderOrderEffect(effect, selections) ==
  Item(effect.card, effect.count, FALSE, "order", NoText,
       [i \in 1..effect.count |-> SelectedOption(selections, i - 1, OrderDamageTypes)],
       DurationItems(CalculateOrderDurations(selections)), FALSE)

CoinQuantity(value) == IF value = "jewelry" THEN 5 ELSE 10
CoinWorth(value) == IF value = "jewelry" THEN 100 ELSE 50

\* renderCoinEffect(effect, effectsList, selection, onSelectionChange)
RenderCoinEffect(effect, selection) ==
  LET shown == IF selection \in CoinChoices THEN selection ELSE "jewelry"
      totalQuantity == CoinQuantity(selection) * effect.count
  IN Item(effect.card, effect.count, FALSE, "coin",
          IF selection \in CoinChoices
          THEN <<Number(totalQuantity), Word(selection), Number(CoinWorth(selection)),
                 Number(totalQuantity * CoinWorth(selection))>>
          ELSE NoText,
          <<shown>>, <<>>, FALSE)

RenderMischiefEffect_AlwaysButton(effect, hasIsolation) ==
  Item(effect.card, effect.count, FALSE, "mischief", effect.effect.text, <<>>, <<>>, TRUE)

\* renderMischiefEffect(effect, effectsList, hasIsolation, onMischiefDraw), the
\* callback being the one initialize() stored
RenderMischiefEffect(effect, hasIsolation) ==
  Item(effect.card, effect.count, FALSE, "mischief", effect.effect.text, <<>>, <<>>,
       ~hasIsolation)

----------------------------------------------------------------------------
(* EffectsRenderer.renderEffects *)

\* the branch of regular.forEach for one effect
RenderRegular(effect, sel, hasIsolation) ==
  IF effect.effect.kind = "object"
  THEN CASE effect.effect.type = "chaos" -> RenderChaosEffect(effect, sel[1])
         [] effect.effect.type = "coin" -> RenderCoinEffect(effect, sel[3])
         [] effect.effect.type = "order" -> RenderOrderEffect(effect, sel[2])
         [] effect.effect.type = "mischief" -> RenderMischiefEffect(effect, hasIsolation)
         [] OTHER -> RenderStandardEffect(effect, FALSE)
  ELSE RenderStandardEffect(effect, FALSE)

\* renderEffects(drawnCards) with the selections `sel` in place: the class "empty"
\* and the items shown.  The early returns hide the panel, which then shows no
\* item; the last branch empties effectsList and fills it again.
RenderEffects(cards, sel) ==
  IF Len(cards) = 0
  THEN [empty |-> TRUE, list |-> <<>>]
  ELSE LET effects == CalculateEffects(cards)
           regular == effects.regular
           curses == effects.curses
           hasIsolation == Includes(cards, "isolation")
       IN IF Len(regular) = 0 /\ Len(curses) = 0
          THEN [empty |-> TRUE, list |-> <<>>]
          ELSE [empty |-> FALSE,
                list |-> [k \in 1..Len(regular) |-> RenderRegular(regular[k], sel, hasIsolation)]
                         \o [k \in 1..Len(curses) |-> RenderStandardEffect(curses[k], TRUE)]]

\* CardGame.updateEffectsDisplay(), run with the outcome and selections just stored
UpdateEffectsDisplay(cards, sel) ==
  \E rendered \in {RenderEffects(cards, sel)} :
     /\ effectsEmpty' = rendered.empty
     /\ effectsList' = rendered.list

\* the "Draw x2" button is on the panel
MischiefButtonShown ==
  ~effectsEmpty /\ \E k \in 1..Len(effectsList) : effectsList[k].button

\* the dropdowns of the chaos, order and coin items on the panel
DropdownsShown(type) ==
  IF ~effectsEmpty /\ \E k \in 1..Len(effectsList) : effectsList[k].type = type
  THEN Len(effectsList[CHOOSE k \in 1..Len(effectsList) : effectsList[k].type = type].dropdowns)
  ELSE 0

----------------------------------------------------------------------------
(* diceRoller and DiceRollHandler *)

\* The pseudo-random generator is a stream of values, of which the k-th
\* randomInt(1, sides) of an invocation takes the k-th and maps it into 1..sides.
\* The values 0 and 59 select the lowest and the highest face of every die of the
\* effect texts (d3, d4, d10, d12).
Faces == {0, 59}
RollStreams == [1..MaxRollPrefix -> Faces]
Face(r, k, sides) == 1 + ((IF k <= Len(r) THEN r[k] ELSE 0) % sides)

RECURSIVE SumOfRolls(_, _, _, _)
SumOfRolls(r, pos, quantity, sides) ==
  IF quantity = 0 THEN 0
  ELSE Face(r, pos + 1, sides) + SumOfRolls(r, pos + 1, quantity - 1, sides)

MaxOfRolls_LastRoll(r, pos, quantity, sides) ==
  IF quantity = 0 THEN 0 ELSE Face(r, pos + quantity, sides)

RECURSIVE MaxOfRolls(_, _, _, _)
MaxOfRolls(r, pos, quantity, sides) ==
  IF quantity = 0 THEN 0
  ELSE LET roll == Face(r, pos + 1, sides)
           max == MaxOfRolls(r, pos + 1, quantity - 1, sides)
       IN IF roll > max THEN roll ELSE max

\* rollDiceExpression(diceExpression), the expression parsed into its quantity,
\* its sides and its "kh1" suffix, when `pos` rolls of the stream are consumed
RollDiceExpression(dice, r, pos) ==
  IF dice.q < 1 \/ dice.s < 1 THEN 0
  ELSE IF dice.kh THEN MaxOfRolls(r, pos, dice.q, dice.s)
  ELSE SumOfRolls(r, pos, dice.q, dice.s)

RollCalls_Unchecked(dice) == dice.q

\* randomInt calls of rollDiceExpression
RollCalls(dice) == IF dice.q < 1 \/ dice.s < 1 THEN 0 ELSE dice.q

\* console.error calls of rollDiceExpression
RollErrors(dice) == IF dice.q < 1 \/ dice.s < 1 THEN 1 ELSE 0

RECURSIVE RollDiceInTextFrom_Restart(_, _, _, _, _)
RollDiceInTextFrom_Restart(text, i, r, pos, errors) ==
  IF i > Len(text) THEN [text |-> text, pos |-> pos, errors |-> errors]
  ELSE IF text[i].t = "dice"
  THEN RollDiceInTextFrom_Restart([text EXCEPT ![i] = Number(RollDiceExpression(text[i], r, 0))],
                                  i + 1, r, pos + RollCalls(text[i]),
                                  errors + RollErrors(text[i]))
  ELSE RollDiceInTextFrom_Restart(text, i + 1, r, pos, errors)

\* rollDiceInText(text): every dice expression replaced by its rolled value, from
\* left to right; `pos` counts the randomInt calls, `errors` the console.error calls
RECURSIVE RollDiceInTextFrom(_, _, _, _, _)
RollDiceInTextFrom(text, i, r, pos, errors) ==
  IF i > Len(text) THEN [text |-> text, pos |-> pos, errors |-> errors]
  ELSE IF text[i].t = "dice"
  THEN RollDiceInTextFrom([text EXCEPT ![i] = Number(RollDiceExpression(text[i], r, pos))],
                          i + 1, r, pos + RollCalls(text[i]), errors + RollErrors(text[i]))
  ELSE RollDiceInTextFrom(text, i + 1, r, pos, errors)

RollDiceInText(text, i, r, pos) == RollDiceInTextFrom(text, i, r, pos, 0)

\* effectDescriptions.forEach: the descriptions rolled, Monster's skipped
RECURSIVE RollDescriptions(_, _, _, _)
RollDescriptions(list, k, r, pos) ==
  IF k > Len(list) THEN [list |-> list, pos |-> pos]
  ELSE IF list[k].card = "monster" THEN RollDescriptions(list, k + 1, r, pos)
  ELSE LET rolled == RollDiceInText(list[k].description, 1, r, pos)
       IN RollDescriptions([list EXCEPT ![k].description = rolled.text], k + 1, r, rolled.pos)

\* durationItems.forEach, in document order: item k, duration j
RECURSIVE RollDurations(_, _, _, _, _)
RollDurations(list, k, j, r, pos) ==
  IF k > Len(list) THEN [list |-> list, pos |-> pos]
  ELSE IF j > Len(list[k].durations) THEN RollDurations(list, k + 1, 1, r, pos)
  ELSE LET rolled == RollDiceInText(list[k].durations[j], 1, r, pos)
       IN RollDurations([list EXCEPT ![k].durations[j] = rolled.text], k, j + 1, r, rolled.pos)

\* convertDropdownsToText(): each dropdown replaced by a label with the selected option
ConvertDropdownsToText(list) ==
  [k \in 1..Len(list) |-> [list[k] EXCEPT !.dropdowns = <<>>, !.labels = list[k].dropdowns]]

\* rollAllDice(): the items after it and the number of randomInt calls
RollAllDiceResult(list, r) ==
  LET descriptions == RollDescriptions(list, 1, r, 0)
      durations == RollDurations(descriptions.list, 1, 1, r, descriptions.pos)
  IN [list |-> ConvertDropdownsToText(durations.list), pos |-> durations.pos]

----------------------------------------------------------------------------
(* UIManager *)

\* isValidCardCount(count), count being what parseInt returned
IsValidCardCount(count) ==
  /\ count.k # "nan"
  /\ count.v > 0
  /\ count.v <= MAX_DRAW

----------------------------------------------------------------------------
(* CardGame.handleDrawCards *)

NumberIsInteger(count) == count.k = "int"

\* count <= 0 (false of NaN)
LeqZero(count) ==
  CASE count.k = "int" -> count.v <= 0
    [] count.k = "frac" -> count.v < 0
    [] OTHER -> FALSE

InvalidCount_NoIntegerCheck(count) == LeqZero(count)

\* the guard of the first return
InvalidCount(count) == ~NumberIsInteger(count) \/ LeqZero(count)

OverMaxDraw_OffByOne(count) == count.v >= MAX_DRAW

\* the guard of the second return, which only integers reach
OverMaxDraw(count) == count.v > MAX_DRAW

TruncateAtIsolation_OffByOne(cards) ==
  LET isolationIndex == IndexOf(cards, "isolation")
  IN IF isolationIndex # -1 THEN Slice(cards, 0, isolationIndex + 2) ELSE cards

\* "If Isolation is drawn, only keep cards drawn before and including Isolation"
TruncateAtIsolation(cards) ==
  LET isolationIndex == IndexOf(cards, "isolation")
  IN IF isolationIndex # -1 THEN Slice(cards, 0, isolationIndex + 1) ELSE cards

MysteryCount_Capped(cards) ==
  LET room == MAX_DRAW - Len(cards)
      found == CountOf(cards, "mystery")
  IN IF found <= room THEN found ELSE IF room > 0 THEN room ELSE 0

\* drawnCards.filter((card) => card === "mystery").length
MysteryCount(cards) == CountOf(cards, "mystery")

RECURSIVE ExtendLoop_NoBreak(_, _, _, _, _, _)
ExtendLoop_NoBreak(d, p, cards, sampled, i, mysteryCount) ==
  IF i >= mysteryCount
  THEN [cards |-> cards, sampled |-> sampled]
  ELSE LET extraCards == DrawCards(d, 1, p, Len(sampled))
       IN IF ~extraCards.null /\ Len(extraCards.cards) > 0
          THEN LET appended == cards \o extraCards.cards
                   nowSampled == sampled \o extraCards.cards
                   newIsolationIndex == IndexOf(appended, "isolation")
               IN IF newIsolationIndex # -1
                  THEN ExtendLoop_NoBreak(d, p, Slice(appended, 0, newIsolationIndex + 1),
                                          nowSampled, i + 1, mysteryCount)
                  ELSE ExtendLoop_NoBreak(d, p, appended, nowSampled, i + 1, mysteryCount)
          ELSE ExtendLoop_NoBreak(d, p, cards, sampled, i + 1, mysteryCount)

\* The for loop over the mystery cards; `sampled` holds every card sampled so far.
RECURSIVE ExtendLoop(_, _, _, _, _, _)
ExtendLoop(d, p, cards, sampled, i, mysteryCount) ==
  IF i >= mysteryCount
  THEN [cards |-> cards, sampled |-> sampled]
  ELSE LET extraCards == DrawCards(d, 1, p, Len(sampled))
       IN IF ~extraCards.null /\ Len(extraCards.cards) > 0
          THEN LET appended == cards \o extraCards.cards
                   nowSampled == sampled \o extraCards.cards
                   newIsolationIndex == IndexOf(appended, "isolation")
               IN IF newIsolationIndex # -1
                  THEN [cards |-> Slice(appended, 0, newIsolationIndex + 1),
                        sampled |-> nowSampled]
                  ELSE ExtendLoop(d, p, appended, nowSampled, i + 1, mysteryCount)
          ELSE ExtendLoop(d, p, cards, sampled, i + 1, mysteryCount)

ResolveDraw_ExtendAfterHalt(d, n, p) ==
  LET first == DrawCards(d, n, p, 0).cards
      kept == TruncateAtIsolation(first)
      mysteryCount == MysteryCount(kept)
  IN IF mysteryCount > 0
     THEN ExtendLoop(d, p, kept, first, 0, mysteryCount)
     ELSE [cards |-> kept, sampled |-> first]

\* The cards handleDrawCards stores for an accepted count on a non-empty deck.
ResolveDraw(d, n, p) ==
  LET first == DrawCards(d, n, p, 0).cards
      kept == TruncateAtIsolation(first)
      mysteryCount == MysteryCount(kept)
  IN IF mysteryCount > 0 /\ ~Includes(kept, "isolation")
     THEN ExtendLoop(d, p, kept, first, 0, mysteryCount)
     ELSE [cards |-> kept, sampled |-> first]

\* `rolls` counts the randomInt calls of the event, `sampled` lists the cards
\* its drawCards calls selected, or the values of the generator its dice took;
\* `count` is the argument of a draw, or the number of console.error calls of a roll.
Event(op, count, status, sampled, rolls) ==
  [op |-> op, count |-> count, status |-> status, sampled |-> sampled, rolls |-> rolls]

Returned(op, count, status) ==
  /\ last' = Event(op, count, status, <<>>, 0)
  /\ UNCHANGED <<deck, deckSize, drawnCards, chaosSelections, orderSelections, coinSelection,
                 effectsEmpty, effectsList>>

HandleDrawCardsBody(count, p) ==
  IF InvalidCount(count) THEN Returned("draw", count, "InvalidCount")
  ELSE IF OverMaxDraw(count) THEN Returned("draw", count, "OverMaxDraw")
  ELSE IF IsEmpty(deck) THEN Returned("draw", count, "EmptyDeck")
  ELSE \E r \in {ResolveDraw(deck, count.v, p)} :
          /\ drawnCards' = r.cards
          /\ StoreSelections(ResetSelections(r.cards))
          /\ UpdateEffectsDisplay(r.cards, ResetSelections(r.cards))
          /\ last' = Event("draw", count, "ok", r.sampled, Len(r.sampled))
          /\ UNCHANGED <<deck, deckSize>>

\* An invocation that returns before it samples consumes no stream.
HandleDrawCards ==
  /\ \E count \in Counts :
       \E p \in IF ~InvalidCount(count) /\ ~OverMaxDraw(count) /\ ~IsEmpty(deck)
                THEN Streams(deck)
                ELSE {<<>>} :
         HandleDrawCardsBody(count, p)
  /\ UNCHANGED canvasVars

----------------------------------------------------------------------------
(* CardGame.handleMischiefDraw *)

\* "If Isolation is drawn as the first card, don't draw the second"
KeepBonusCards(newCards) ==
  IF Len(newCards) > 0 /\ newCards[1] = "isolation" THEN <<newCards[1]>>
  ELSE IF Len(newCards) > 1 /\ newCards[2] = "isolation" THEN Slice(newCards, 0, 2)
  ELSE newCards

RemoveOneMischief_None(cards) == cards

RECURSIVE RemoveOneMischief_All(_)
RemoveOneMischief_All(cards) ==
  IF Includes(cards, "mischief")
  THEN RemoveOneMischief_All(Splice1(cards, IndexOf(cards, "mischief")))
  ELSE cards

\* "Remove one mischief from drawnCards"
RemoveOneMischief(cards) ==
  LET mischiefIndex == IndexOf(cards, "mischief")
  IN IF mischiefIndex # -1 THEN Splice1(cards, mischiefIndex) ELSE cards

ResolveBonusDraw_AppendBoth(cards, newCards) == RemoveOneMischief(cards) \o newCards

\* The cards handleMischiefDraw stores, given the two cards drawCards(2) returned.
ResolveBonusDraw(cards, newCards) ==
  TruncateAtIsolation(RemoveOneMischief(cards) \o KeepBonusCards(newCards))

HaltCardPresent_Never(cards) == FALSE

\* "Check if isolation is already drawn"
HaltCardPresent(cards) == Includes(cards, "isolation")

HandleMischiefDrawBody(p) ==
  IF HaltCardPresent(drawnCards) THEN Returned("mischief", NoCount, "HaltCardPresent")
  ELSE LET newCards == DrawCards(deck, 2, p, 0)
       IN IF newCards.null
          \* newCards.length on null throws before anything is written
          THEN Returned("mischief", NoCount, "TypeError")
          ELSE \E cards \in {ResolveBonusDraw(drawnCards, newCards.cards)} :
                  /\ drawnCards' = cards
                  /\ StoreSelections(ResetSelections(cards))
                  /\ UpdateEffectsDisplay(cards, ResetSelections(cards))
                  /\ last' = Event("mischief", NoCount, "ok", newCards.cards, Len(newCards.cards))
                  /\ UNCHANGED <<deck, deckSize>>

\* The streams explored for a bonus draw, which consumes two picks when it samples:
\* a pick it does not consume is left at one card, as it selects nothing.
BonusStreams ==
  IF ~HaltCardPresent(drawnCards) /\ ~IsEmpty(deck)
  THEN {p \in Streams(deck) : \A k \in 3..Len(p) : p[k] = CHOOSE c \in Explored(deck) : TRUE}
  ELSE {<<>>}

\* The bound applies to the bonus draws that would be carried out.
HandleMischiefDraw ==
  /\ Len(drawnCards) <= MaxBonusLen \/ Includes(drawnCards, "isolation")
  /\ \E p \in BonusStreams : HandleMischiefDrawBody(p)
  /\ UNCHANGED canvasVars

\* The click listener of the "Draw x2" button, which calls handleMischiefDraw.
MischiefDrawButtonClick ==
  /\ MischiefButtonShown
  /\ Len(drawnCards) <= MaxBonusLen \/ Includes(drawnCards, "isolation")
  /\ \E p \in BonusStreams : HandleMischiefDrawBody(p)
  /\ UNCHANGED canvasVars

----------------------------------------------------------------------------
(* CardGame.handleDeckSizeChange *)

HandleDeckSizeChangeBody(size, selectedCards) ==
  LET created == CreateDeck(size, selectedCards)
  IN /\ deck' = created.deck
     /\ deckSize' = created.deckSize
     /\ drawnCards' = <<>>
     /\ StoreSelections(ClearSelections)
     /\ UpdateEffectsDisplay(<<>>, ClearSelections)
     /\ last' = Event("deck", NoCount, "ok", <<>>, ShuffleCalls(Cardinality(created.deck)))

HandleDeckSizeChange ==
  /\ \/ \E size \in {"13", "22"} : HandleDeckSizeChangeBody(size, {})
     \/ \E selectedCards \in CustomChoices : HandleDeckSizeChangeBody("custom", selectedCards)
  /\ UNCHANGED canvasVars

----------------------------------------------------------------------------
(* The selection callbacks EffectsRenderer.renderEffects installs *)

Offered(damageTypes) == {damageTypes[i] : i \in 1..MaxTypes}

\* array[index] = value, which lengthens the array when index is beyond its end
SetAt(array, index, value) ==
  [i \in 1..(IF index + 1 > Len(array) THEN index + 1 ELSE Len(array)) |->
     IF i = index + 1 THEN value
     ELSE IF i <= Len(array) THEN array[i] ELSE "undefined"]

\* The callbacks store the value and call onUpdateCallback, which renders again.
SelectChaos ==
  /\ \E index \in 0..(MaxSelIdx - 1), value \in Offered(ChaosDamageTypes) :
       /\ index < DropdownsShown("chaos")
       /\ chaosSelections' = SetAt(chaosSelections, index, value)
       /\ UpdateEffectsDisplay(drawnCards,
                               <<SetAt(chaosSelections, index, value), orderSelections,
                                 coinSelection>>)
       /\ last' = Event("select", NoCount, "ok", <<>>, 0)
       /\ UNCHANGED <<deck, deckSize, drawnCards, orderSelections, coinSelection>>
  /\ UNCHANGED canvasVars

SelectOrder ==
  /\ \E index \in 0..(MaxSelIdx - 1), value \in Offered(OrderDamageTypes) :
       /\ index < DropdownsShown("order")
       /\ orderSelections' = SetAt(orderSelections, index, value)
       /\ UpdateEffectsDisplay(drawnCards,
                               <<chaosSelections, SetAt(orderSelections, index, value),
                                 coinSelection>>)
       /\ last' = Event("select", NoCount, "ok", <<>>, 0)
       /\ UNCHANGED <<deck, deckSize, drawnCards, chaosSelections, coinSelection>>
  /\ UNCHANGED canvasVars

SelectCoin ==
  /\ \E value \in CoinChoices :
       /\ DropdownsShown("coin") > 0
       /\ coinSelection' = value
       /\ UpdateEffectsDisplay(drawnCards, <<chaosSelections, orderSelections, value>>)
       /\ last' = Event("select", NoCount, "ok", <<>>, 0)
       /\ UNCHANGED <<deck, deckSize, drawnCards, chaosSelections, orderSelections>>
  /\ UNCHANGED canvasVars

----------------------------------------------------------------------------

Init ==
  /\ deck = TAROT_CARDS_FULL
  /\ deckSize = DEFAULT_SIZE
  /\ drawnCards = <<>>
  /\ chaosSelections = <<>>
  /\ orderSelections = <<>>
  /\ coinSelection = "jewelry"
  /\ effectsEmpty \in BOOLEAN    \* as the page's markup sets it
  /\ effectsList = <<>>
  /\ last = Event("init", NoCount, "ok", <<>>, ShuffleCalls(Cardinality(TAROT_CARDS_FULL)))
  /\ CanvasInit

Next ==
  \/ HandleDrawCards
  \/ HandleMischiefDraw
  \/ MischiefDrawButtonClick
  \/ HandleDeckSizeChange
  \/ SelectChaos
  \/ SelectOrder
  \/ SelectCoin

Spec == Init /\ [][Next]_vars

----------------------------------------------------------------------------
(* calculateEffects, the renderers and the dice on outcomes of any cards *)

\* an identifier getEffect has no case for
Unruled == "fool"

Identifiers == TAROT_CARDS_FULL \cup {Unruled}

Outcomes ==
  UNION {[1..n -> Identifiers] : n \in 0..MaxOutcomeLen}
    \cup {Fill(n, c) : n \in 1..MaxStack, c \in Identifiers}

\* An outcome as handleDrawCards could have stored it, with selections as the
\* dropdowns can set them, before the panel is rendered.
EffectsInit ==
  /\ deck = TAROT_CARDS_FULL
  /\ deckSize = DECK_SIZES_FULL
  /\ drawnCards \in Outcomes
  /\ chaosSelections \in [1..CountOf(drawnCards, "chaos") -> Offered(ChaosDamageTypes)]
  /\ orderSelections \in [1..CountOf(drawnCards, "order") -> Offered(OrderDamageTypes)]
  /\ coinSelection \in IF Includes(drawnCards, "coin") THEN CoinChoices ELSE {"jewelry"}
  /\ effectsEmpty = TRUE
  /\ effectsList = <<>>
  /\ last = Event("init", NoCount, "ok", <<>>, ShuffleCalls(Cardinality(TAROT_CARDS_FULL)))
  /\ CanvasInit

\* EffectsRenderer.renderEffects(drawnCards)
RenderEffectsCall ==
  /\ last.op = "init"
  /\ UpdateEffectsDisplay(drawnCards, <<chaosSelections, orderSelections, coinSelection>>)
  /\ last' = Event("render", NoCount, "ok", <<>>, 0)
  /\ UNCHANGED <<deck, deckSize, drawnCards, chaosSelections, orderSelections, coinSelection>>
  /\ UNCHANGED canvasVars

\* The click on the "Roll Dice" button, which renderEffects puts on a panel with
\* effects and rollAllDice removes.
RollAllDice ==
  /\ last.op = "render"
  /\ ~effectsEmpty
  /\ \E r \in RollStreams :
       \E rolled \in {RollAllDiceResult(effectsList, r)} :
          /\ effectsList' = rolled.list
          /\ last' = Event("roll", NoCount, "ok", r, rolled.pos)
  /\ UNCHANGED <<deck, deckSize, drawnCards, chaosSelections, orderSelections, coinSelection,
                 effectsEmpty>>
  /\ UNCHANGED canvasVars

EffectsNext ==
  \/ RenderEffectsCall
  \/ RollAllDice

EffectsSpec == EffectsInit /\ [][EffectsNext]_vars

----------------------------------------------------------------------------
(* rollDiceExpression and rollDiceInText on expressions and texts of any shape *)

\* Sides and expressions as the pattern \d+d\d+(kh1)? admits them, zero included.
DiceSides == {0, 6, 10}
DiceExprs == {Dice(q, s, kh) : q \in 0..MaxQuantity, s \in DiceSides, kh \in BOOLEAN}

\* The words and the expressions the texts are made of.
TextTokens ==
  {Word("You take"), Word("damage"),
   Dice(0, 6, FALSE), Dice(2, 0, FALSE), Dice(2, 6, FALSE), Dice(1, 10, TRUE)}

DiceTexts ==
  UNION {[1..n -> TextTokens] : n \in 0..MaxTextLen} \cup {<<d>> : d \in DiceExprs}

\* The values of the generator: on a d6 they roll 2, 3, 4, 5 and 3, on a d10
\* 2, 3, 4, 5 and 9.
DiceStreams == [1..MaxDice -> {1, 2, 3, 4, 8}]

\* an element that holds a text
TextItem(text) == Item("", 1, FALSE, "standard", text, <<>>, <<>>, FALSE)

\* The text at hand is the first element; a call appends what it returns.
DiceInit ==
  /\ deck = TAROT_CARDS_FULL
  /\ deckSize = DECK_SIZES_FULL
  /\ drawnCards = <<>>
  /\ chaosSelections = <<>>
  /\ orderSelections = <<>>
  /\ coinSelection = "jewelry"
  /\ effectsEmpty = FALSE
  /\ \E text \in DiceTexts : effectsList = <<TextItem(text)>>
  /\ last = Event("text", NoCount, "ok", <<>>, 0)
  /\ CanvasInit

\* rollDiceExpression(diceExpression) on a text that is one expression
RollDiceExpressionCall ==
  /\ last.op = "text"
  /\ Len(effectsList[1].description) = 1
  /\ effectsList[1].description[1].t = "dice"
  /\ \E r \in DiceStreams :
       LET dice == effectsList[1].description[1]
       IN /\ effectsList' =
               Append(effectsList, TextItem(<<Number(RollDiceExpression(dice, r, 0))>>))
          /\ last' = Event("rollDiceExpression", Num(RollErrors(dice)), "ok", r, RollCalls(dice))
  /\ UNCHANGED <<deck, deckSize, drawnCards, chaosSelections, orderSelections, coinSelection,
                 effectsEmpty>>
  /\ UNCHANGED canvasVars

\* rollDiceInText(text)
RollDiceInTextCall ==
  /\ last.op = "text"
  /\ \E r \in DiceStreams :
       \E rolled \in {RollDiceInTextFrom(effectsList[1].description, 1, r, 0, 0)} :
          /\ effectsList' = Append(effectsList, TextItem(rolled.text))
          /\ last' = Event("rollDiceInText", Num(rolled.errors), "ok", r, rolled.pos)
  /\ UNCHANGED <<deck, deckSize, drawnCards, chaosSelections, orderSelections, coinSelection,
                 effectsEmpty>>
  /\ UNCHANGED canvasVars

DiceNext ==
  \/ RollDiceExpressionCall
  \/ RollDiceInTextCall

DiceSpec == DiceInit /\ [][DiceNext]_vars

----------------------------------------------------------------------------
(* The handlers of CardGame, step by step between their await points *)

\* A handler that reached `await this.gameRenderer.renderCards(...)` is suspended:
\* renderCards awaits nothing, so the handler resumes in a microtask.
Suspended == last.status = "await"

EventDispatchable_Always == TRUE

\* The event loop dispatches the next click or change event when no microtask
\* is left, which is after the suspended handler resumed.
EventDispatchable == ~Suspended

\* handleDrawCards up to its await: the outcome and the selections are stored,
\* the panel is as it was.
HandleDrawCardsStartBody(count, p) ==
  IF InvalidCount(count) THEN Returned("draw", count, "InvalidCount")
  ELSE IF OverMaxDraw(count) THEN Returned("draw", count, "OverMaxDraw")
  ELSE IF IsEmpty(deck) THEN Returned("draw", count, "EmptyDeck")
  ELSE \E r \in {ResolveDraw(deck, count.v, p)} :
          /\ drawnCards' = r.cards
          /\ StoreSelections(ResetSelections(r.cards))
          /\ last' = Event("draw", count, "await", r.sampled, Len(r.sampled))
          /\ UNCHANGED <<deck, deckSize, effectsEmpty, effectsList>>

HandleDrawCardsStart ==
  /\ EventDispatchable
  /\ \E count \in Counts :
       \E p \in IF ~InvalidCount(count) /\ ~OverMaxDraw(count) /\ ~IsEmpty(deck)
                THEN Streams(deck)
                ELSE {<<>>} :
         HandleDrawCardsStartBody(count, p)
  /\ UNCHANGED canvasVars

\* handleMischiefDraw up to its await
HandleMischiefDrawStartBody(p) ==
  IF HaltCardPresent(drawnCards) THEN Returned("mischief", NoCount, "HaltCardPresent")
  ELSE LET newCards == DrawCards(deck, 2, p, 0)
       IN IF newCards.null
          THEN Returned("mischief", NoCount, "TypeError")
          ELSE \E cards \in {ResolveBonusDraw(drawnCards, newCards.cards)} :
                  /\ drawnCards' = cards
                  /\ StoreSelections(ResetSelections(cards))
                  /\ last' = Event("mischief", NoCount, "await", newCards.cards,
                                   Len(newCards.cards))
                  /\ UNCHANGED <<deck, deckSize, effectsEmpty, effectsList>>

\* handleMischiefDraw is the callback of the "Draw x2" button and of nothing else.
MischiefDrawButtonClickStart ==
  /\ EventDispatchable
  /\ MischiefButtonShown
  /\ Len(drawnCards) <= MaxBonusLen \/ Includes(drawnCards, "isolation")
  /\ \E p \in BonusStreams : HandleMischiefDrawStartBody(p)
  /\ UNCHANGED canvasVars

HandleDeckSizeChangeStartBody_KeepOutcome(size, selectedCards) ==
  LET created == CreateDeck(size, selectedCards)
  IN /\ deck' = created.deck
     /\ deckSize' = created.deckSize
     /\ last' = Event("deck", NoCount, "await", <<>>, ShuffleCalls(Cardinality(created.deck)))
     /\ UNCHANGED <<drawnCards, chaosSelections, orderSelections, coinSelection,
                    effectsEmpty, effectsList>>

\* handleDeckSizeChange up to its await
HandleDeckSizeChangeStartBody(size, selectedCards) ==
  LET created == CreateDeck(size, selectedCards)
  IN /\ deck' = created.deck
     /\ deckSize' = created.deckSize
     /\ drawnCards' = <<>>
     /\ StoreSelections(ClearSelections)
     /\ last' = Event("deck", NoCount, "await", <<>>, ShuffleCalls(Cardinality(created.deck)))
     /\ UNCHANGED <<effectsEmpty, effectsList>>

HandleDeckSizeChangeStart ==
  /\ EventDispatchable
  /\ \/ \E size \in {"13", "22"} : HandleDeckSizeChangeStartBody(size, {})
     \/ \E selectedCards \in CustomChoices :
          HandleDeckSizeChangeStartBody("custom", selectedCards)
  /\ UNCHANGED canvasVars

\* The rest of the three handlers: this.updateEffectsDisplay(), which reads the
\* outcome and the selections of the moment it runs.
ResumeAfterRenderCards ==
  /\ Suspended
  /\ UpdateEffectsDisplay(drawnCards, <<chaosSelections, orderSelections, coinSelection>>)
  /\ last' = [last EXCEPT !.status = "ok"]
  /\ UNCHANGED <<deck, deckSize, drawnCards, chaosSelections, orderSelections,
                 coinSelection>>
  /\ UNCHANGED canvasVars

SelectChaosEvent == EventDispatchable /\ SelectChaos
SelectOrderEvent == EventDispatchable /\ SelectOrder
SelectCoinEvent == EventDispatchable /\ SelectCoin

AsyncNext ==
  \/ HandleDrawCardsStart
  \/ MischiefDrawButtonClickStart
  \/ HandleDeckSizeChangeStart
  \/ ResumeAfterRenderCards
  \/ SelectChaosEvent
  \/ SelectOrderEvent
  \/ SelectCoinEvent

AsyncSpec == Init /\ [][AsyncNext]_vars

----------------------------------------------------------------------------
(* GameRenderer, CardRenderer, CardAnimator and CardHoverManager *)

\* The outcomes renderCards is called with.
RenderedCards == <<"coin", "order", "chaos">>
RenderedOutcomes == {[i \in 1..n |-> RenderedCards[i]] : n \in 0..MaxCards}

\* A timer of the call-th renderCards: its resize timer when index is 0, else the
\* timer of the card at that index, set with the delay (index - 1) * CARD_ANIMATION_DELAY.
\* cardNames is the argument its callback closes over.
Timer(call, index, cardNames) == [call |-> call, index |-> index, cardNames |-> cardNames]

\* the value setTimeout returns for a timer, the identity of a sprite
Id(t) == [call |-> t.call, index |-> t.index]

\* The place of the grid calculateCardPositions gives the card at `index` of an
\* outcome of n cards; a cursor on a place is within the bounds of that place alone.
Place(n, index) == [n |-> n, index |-> index]
Places == {Place(n, index) : n \in 1..MaxCards, index \in 1..MaxCards} \ {Place(1, 2)}
OnNoCard == Place(0, 0)
OffCanvas == Place(-1, -1)

\* CardAnimator.createAnimatedCard: the container of a card, on its way from the
\* centre to its place.  animateCard sets _isAnimating and runs its first frame;
\* GameRenderer stores originalX and originalY, the place of the card.
CreateAnimatedCard(call, index, cardNames) ==
  [call |-> call, index |-> index, card |-> cardNames[index],
   original |-> Place(Len(cardNames), index),
   isAnimating |-> TRUE, animationComplete |-> FALSE,
   position |-> "flight", scale |-> "flip", zIndex |-> 0]

\* clearTimeout of the timers GameRenderer keeps track of
CancelActiveRenderTimeouts ==
  {t \in timers : /\ Id(t) # activeResizeTimeout
                  /\ \A k \in 1..Len(activeRenderTimeouts) : Id(t) # activeRenderTimeouts[k]}

\* renderCards(cardNames): clearCards(), the two resets, then the resize timer
RenderCards ==
  /\ renderCalls < MaxRenders
  /\ \E cardNames \in RenderedOutcomes :
       /\ renderCalls' = renderCalls + 1
       /\ cardSprites' = <<>>
       /\ children' = <<>>
       /\ activeRenderTimeouts' = <<>>
       /\ hoveredCard' = NoCard
       /\ IF Len(cardNames) = 0
          THEN /\ timers' = CancelActiveRenderTimeouts
               /\ activeResizeTimeout' = NoTimeout
          ELSE /\ timers' = CancelActiveRenderTimeouts
                              \cup {Timer(renderCalls + 1, 0, cardNames)}
               /\ activeResizeTimeout' = Id(Timer(renderCalls + 1, 0, cardNames))
  /\ UNCHANGED <<callbacks, textureCache, cursor>>
  /\ UNCHANGED gameVars

\* The callback of the resize timer: one timer per card, in the order of the cards.
ResizeTimeoutFires ==
  /\ \E t \in timers :
       /\ t.index = 0
       /\ timers' = (timers \ {t})
                      \cup {Timer(t.call, i, t.cardNames) : i \in 1..Len(t.cardNames)}
       /\ activeResizeTimeout' = NoTimeout
       /\ activeRenderTimeouts' =
            activeRenderTimeouts
              \o [i \in 1..Len(t.cardNames) |-> Id(Timer(t.call, i, t.cardNames))]
  /\ UNCHANGED <<renderCalls, cardSprites, children, callbacks, textureCache, hoveredCard,
                 cursor>>
  /\ UNCHANGED gameVars

\* The per-card callback `cb` from its await `stage` on, with the textures of
\* `cache` loaded: createCardSprite returns within the task when the texture is
\* loaded and suspends the callback otherwise; with both sprites the callback
\* adds the animated card to the scroll container and to cardSprites.
Proceed(cb, stage, cache) ==
  LET next == IF stage = "front" /\ cb.cardNames[cb.index] \notin cache THEN "front"
              ELSE IF stage \in {"front", "back"} /\ "backside" \notin cache THEN "back"
              ELSE "done"
      suspended == [call |-> cb.call, index |-> cb.index, cardNames |-> cb.cardNames,
                    at |-> next]
  IN /\ textureCache' = cache
     /\ IF next = "done"
        THEN /\ callbacks' = callbacks \ {cb}
             /\ children' = Append(children, Id(cb))
             /\ cardSprites' =
                  Append(cardSprites, CreateAnimatedCard(cb.call, cb.index, cb.cardNames))
        ELSE /\ callbacks' = (callbacks \ {cb}) \cup {suspended}
             /\ UNCHANGED <<children, cardSprites>>

\* A card's timer fires, the timers of one call in the order of their delays.
CardTimeoutFires ==
  /\ \E t \in timers :
       /\ t.index > 0
       /\ \A u \in timers : t.index <= u.index
       /\ timers' = timers \ {t}
       /\ activeRenderTimeouts' =
            SelectSeq(activeRenderTimeouts, LAMBDA id : id # Id(t))
       /\ Proceed(t, "front", textureCache)
  /\ UNCHANGED <<renderCalls, activeResizeTimeout, hoveredCard, cursor>>
  /\ UNCHANGED gameVars

\* Assets.load resolves for a suspended callback, which goes on.
TextureLoaded ==
  /\ \E cb \in callbacks :
       IF cb.at = "front"
       THEN Proceed(cb, "back", textureCache \cup {cb.cardNames[cb.index]})
       ELSE Proceed(cb, "done", textureCache \cup {"backside"})
  /\ UNCHANGED <<renderCalls, activeRenderTimeouts, activeResizeTimeout, timers, hoveredCard,
                 cursor>>
  /\ UNCHANGED gameVars

\* One frame of animateCard's animate(): under way, or the last one.
Animate(sprite, complete) ==
  IF complete
  THEN [sprite EXCEPT !.position = "original", !.scale = "base",
                      !.animationComplete = TRUE, !.isAnimating = FALSE]
  ELSE [sprite EXCEPT !.position = "flight", !.scale = "flip"]

AnimationFrame ==
  /\ \E k \in 1..Len(cardSprites), complete \in BOOLEAN :
       /\ cardSprites[k].isAnimating
       /\ cardSprites' = [cardSprites EXCEPT ![k] = Animate(@, complete)]
  /\ UNCHANGED <<renderCalls, children, activeRenderTimeouts, activeResizeTimeout, timers,
                 callbacks, textureCache, hoveredCard, cursor>>
  /\ UNCHANGED gameVars

\* onMouseMove and onMouseLeave
MouseMove ==
  /\ \E place \in Places \cup {OnNoCard} : cursor' = place
  /\ UNCHANGED <<renderCalls, cardSprites, children, activeRenderTimeouts,
                 activeResizeTimeout, timers, callbacks, textureCache, hoveredCard>>
  /\ UNCHANGED gameVars

MouseLeave ==
  /\ cursor' = OffCanvas
  /\ UNCHANGED <<renderCalls, cardSprites, children, activeRenderTimeouts,
                 activeResizeTimeout, timers, callbacks, textureCache, hoveredCard>>
  /\ UNCHANGED gameVars

\* The three methods move a card towards a position and a scale, a fraction of
\* the way at each call: the position and the scale are those they move it to.
ResetCardToOriginal(sprite) ==
  [sprite EXCEPT !.position = "original", !.scale = "base", !.zIndex = 0]

UpdateHoveredCard(sprite) ==
  [sprite EXCEPT !.position = "hover", !.scale = "full", !.zIndex = HOVERED_CARD_ZINDEX]

ApplyProximityScaling(sprite) == [sprite EXCEPT !.scale = "proximity", !.zIndex = 0]

\* the first of the cards whose original place the cursor is on
DetectHoveredCard(sprites) ==
  IF \E k \in 1..Len(sprites) : sprites[k].original = cursor
  THEN Id(sprites[CHOOSE k \in 1..Len(sprites) :
                    /\ sprites[k].original = cursor
                    /\ \A j \in 1..(k - 1) : sprites[j].original # cursor])
  ELSE NoCard

\* CardHoverManager.update(cardSprites): the cards and hoveredCard after it
Update(sprites) ==
  IF Len(sprites) = 0 THEN [sprites |-> sprites, hoveredCard |-> hoveredCard]
  ELSE IF cursor = OffCanvas
  THEN [sprites |-> [k \in 1..Len(sprites) |->
                       IF ~sprites[k].isAnimating THEN ResetCardToOriginal(sprites[k])
                       ELSE sprites[k]],
        hoveredCard |-> NoCard]
  ELSE LET newHoveredCard == DetectHoveredCard(sprites)
           released == [k \in 1..Len(sprites) |->
                          IF /\ newHoveredCard # hoveredCard
                             /\ Id(sprites[k]) = hoveredCard
                          THEN ResetCardToOriginal(sprites[k])
                          ELSE sprites[k]]
           hovered == [k \in 1..Len(sprites) |->
                         IF Id(released[k]) = newHoveredCard
                         THEN UpdateHoveredCard(released[k])
                         ELSE released[k]]
       IN [sprites |-> [k \in 1..Len(sprites) |->
                          IF /\ ~hovered[k].isAnimating
                             /\ Id(hovered[k]) # newHoveredCard
                             /\ hovered[k].animationComplete
                          THEN ApplyProximityScaling(ResetCardToOriginal(hovered[k]))
                          ELSE hovered[k]],
               hoveredCard |-> newHoveredCard]

\* The ticker's callback: this.hoverManager.update(this.cardSprites).
TickerUpdate ==
  /\ \E updated \in {Update(cardSprites)} :
       /\ cardSprites' = updated.sprites
       /\ hoveredCard' = updated.hoveredCard
  /\ UNCHANGED <<renderCalls, children, activeRenderTimeouts, activeResizeTimeout, timers,
                 callbacks, textureCache, cursor>>
  /\ UNCHANGED gameVars

CanvasNext ==
  \/ RenderCards
  \/ ResizeTimeoutFires
  \/ CardTimeoutFires
  \/ TextureLoaded
  \/ AnimationFrame
  \/ MouseMove
  \/ MouseLeave
  \/ TickerUpdate

CanvasSpec == Init /\ [][CanvasNext]_vars

----------------------------------------------------------------------------
(* Vocabulary of the properties *)

DrawEvent == last.op = "draw"
DrawDone == last.op = "draw" /\ last.status = "ok"
BonusEvent == last.op = "mischief"
BonusDone == last.op = "mischief" /\ last.status = "ok"

\* the first n cards an accepted draw sampled
Initial == SubSeq(last.sampled, 1, last.count.v)

\* an integer count from 1 to the ceiling
InRange(count) == count.k = "int" /\ 1 <= count.v /\ count.v <= MAX_DRAW

\* s without the first occurrence of x
WithoutFirst(s, x) ==
  IF \E i \in 1..Len(s) : s[i] = x
  THEN LET k == CHOOSE i \in 1..Len(s) : s[i] = x /\ \A j \in 1..(i - 1) : s[j] # x
       IN [i \in 1..(Len(s) - 1) |-> IF i < k THEN s[i] ELSE s[i + 1]]
  ELSE s

DefaultSelections ==
  /\ \A i \in 1..Len(chaosSelections) : chaosSelections[i] = "acid"
  /\ \A i \in 1..Len(orderSelections) : orderSelections[i] = "force"
  /\ coinSelection = "jewelry"

----------------------------------------------------------------------------
(* C1 *)

\* C1: in every reachable state, an outcome that contains 'isolation' contains it
\* exactly once, as its last element.
C1_HaltCardIsLast ==
  Includes(drawnCards, "isolation") =>
    /\ CountOf(drawnCards, "isolation") = 1
    /\ drawnCards[Len(drawnCards)] = "isolation"

\* a bonus draw appended 'isolation' as its second card to an outcome it kept
C1_Witness ==
  /\ BonusDone
  /\ last.sampled[1] # "isolation" /\ last.sampled[2] = "isolation"
  /\ Len(drawnCards) >= 3
  /\ drawnCards[Len(drawnCards)] = "isolation"

----------------------------------------------------------------------------
(* C2 *)

\* C2: when the first 'isolation' among the n initially sampled cards is at index i,
\* the outcome is the sampled cards 0..i in order and no extension card is sampled,
\* also when 'mystery' precedes index i.
C2_HaltCutsInitialDraw ==
  (DrawDone /\ Includes(Initial, "isolation")) =>
    /\ drawnCards = SubSeq(Initial, 1, IndexOf(Initial, "isolation") + 1)
    /\ Len(last.sampled) = last.count.v
    /\ last.rolls = last.count.v

\* a draw whose initial cards hold 'mystery' before 'isolation', and a card after it
C2_Witness ==
  /\ DrawDone
  /\ Includes(Initial, "isolation")
  /\ IndexOf(Initial, "isolation") >= 1
  /\ Initial[1] = "mystery"
  /\ IndexOf(Initial, "isolation") + 1 < last.count.v

----------------------------------------------------------------------------
(* C3 *)

\* C3: when the n initial cards hold no 'isolation' and m 'mystery', and no appended
\* card is 'isolation', exactly m cards are appended: the outcome is the n + m
\* sampled cards in order, beyond MAX_DRAW too, and an appended 'mystery' samples
\* nothing more.
C3_ExtendOncePerMystery ==
  (DrawDone /\ ~Includes(last.sampled, "isolation")) =>
    /\ Len(last.sampled) = last.count.v + CountOf(Initial, "mystery")
    /\ last.rolls = Len(last.sampled)
    /\ drawnCards = last.sampled

\* MAX_DRAW cards were requested and the outcome is longer, with a 'mystery' among
\* the appended cards
C3_Witness ==
  /\ DrawDone
  /\ last.count.v = MAX_DRAW
  /\ ~Includes(last.sampled, "isolation")
  /\ Len(drawnCards) > MAX_DRAW
  /\ drawnCards[MAX_DRAW + 1] = "mystery"

----------------------------------------------------------------------------
(* C4 *)

\* C4, as claimed: with a (non-empty) deck holding neither 'mystery' nor
\* 'isolation', every integer n >= 1 yields an outcome of exactly n cards.
C4_Original ==
  (DrawEvent /\ deck # {} /\ deck \cap {"mystery", "isolation"} = {}
     /\ last.count.k = "int" /\ last.count.v >= 1) =>
    /\ last.status = "ok"
    /\ Len(drawnCards) = last.count.v

\* C4, amended: with a non-empty deck holding neither 'mystery' nor 'isolation', an
\* integer n from 1 to MAX_DRAW yields exactly the n sampled cards; handleDrawCards
\* itself refuses n > MAX_DRAW and samples nothing.
C4_ExactCountUpToCeiling ==
  (DrawEvent /\ deck # {} /\ deck \cap {"mystery", "isolation"} = {}
     /\ last.count.k = "int" /\ last.count.v >= 1) =>
    IF last.count.v <= MAX_DRAW
    THEN /\ last.status = "ok"
         /\ Len(drawnCards) = last.count.v
         /\ drawnCards = last.sampled
    ELSE /\ last.status = "OverMaxDraw"
         /\ last.sampled = <<>>

\* MAX_DRAW cards drawn from the 13-card deck
C4_Witness ==
  /\ DrawDone
  /\ deck = TAROT_CARDS_REDUCED
  /\ last.count.v = MAX_DRAW
  /\ Len(drawnCards) = MAX_DRAW

----------------------------------------------------------------------------
(* C5 *)

\* a draw that was carried out: the requested cards were sampled and an outcome stored
Carried == DrawDone /\ Len(last.sampled) >= last.count.v /\ drawnCards # <<>>

\* C5, as claimed: a draw request is carried out if and only if its count is an
\* integer from 1 to MAX_DRAW, whatever the deck.
C5_Original == DrawEvent => (Carried <=> InRange(last.count))

C5_Step ==
  last'.op = "draw" =>
    /\ Carried' <=> (InRange(last'.count) /\ deck # {})
    /\ ~Carried' =>
         /\ last'.sampled = <<>>
         /\ last'.rolls = 0
         /\ drawnCards' = drawnCards
    /\ last'.count \in ParsedCounts =>
         (IsValidCardCount(last'.count) <=> InRange(last'.count))

\* C5, amended: a draw request is carried out if and only if its count is an integer
\* from 1 to MAX_DRAW and the deck is not empty, however small the deck; otherwise
\* nothing is sampled and the outcome is unchanged.  The draw button's validation
\* admits the same counts.
C5_DrawnIffInRangeAndDeckNonEmpty == [][C5_Step]_vars

\* MAX_DRAW cards drawn from a custom deck of fewer cards
C5_Witness ==
  /\ Carried
  /\ Cardinality(deck) < last.count.v
  /\ deck \notin {TAROT_CARDS_FULL, TAROT_CARDS_REDUCED}

----------------------------------------------------------------------------
(* C6 *)

C6_Step ==
  (last'.op = "draw" /\ (last'.count.k # "int" \/ last'.count.v <= 0)) =>
    /\ last'.status = "InvalidCount"
    /\ last'.sampled = <<>>
    /\ last'.rolls = 0
    /\ UNCHANGED <<drawnCards, chaosSelections, orderSelections, coinSelection>>

\* C6: a draw with a count that is <= 0 or not an integer returns at once: no card is
\* sampled, and the outcome and the selections stay as they were.
C6_InvalidCountChangesNothing == [][C6_Step]_vars

\* a refused count, with an outcome and a changed selection in place
C6_Witness ==
  /\ DrawEvent
  /\ last.status = "InvalidCount"
  /\ drawnCards # <<>>
  /\ ~DefaultSelections

----------------------------------------------------------------------------
(* C7 *)

C7_Step ==
  (last'.op = "draw" /\ deck = {}) =>
    /\ last'.status # "ok"
    /\ InRange(last'.count) => last'.status = "EmptyDeck"
    /\ last'.sampled = <<>>
    /\ last'.rolls = 0
    /\ UNCHANGED <<drawnCards, chaosSelections, orderSelections, coinSelection>>

\* C7: on a deck without members a draw returns without sampling, produces no
\* outcome, and leaves the outcome and the selections as they were.
C7_EmptyDeckChangesNothing == [][C7_Step]_vars

\* a draw of an acceptable count refused on the empty custom deck
C7_Witness ==
  /\ DrawEvent
  /\ deck = {}
  /\ InRange(last.count)
  /\ last.status = "EmptyDeck"

----------------------------------------------------------------------------
(* C8 *)

C8_Step ==
  (last'.op = "mischief" /\ Includes(drawnCards, "isolation")) =>
    /\ last'.status = "HaltCardPresent"
    /\ last'.sampled = <<>>
    /\ last'.rolls = 0
    /\ UNCHANGED <<drawnCards, chaosSelections, orderSelections, coinSelection>>

\* C8: a bonus draw on an outcome that contains 'isolation' returns at once: nothing
\* is sampled, no 'mischief' is removed, outcome and selections stay as they were.
C8_HaltCardBlocksBonusDraw == [][C8_Step]_vars

\* a refused bonus draw on an outcome with 'mischief', 'isolation' and a changed selection
C8_Witness ==
  /\ BonusEvent
  /\ last.status = "HaltCardPresent"
  /\ Includes(drawnCards, "mischief")
  /\ Includes(drawnCards, "isolation")
  /\ ~DefaultSelections

----------------------------------------------------------------------------
(* C9 *)

C9_Step ==
  (last'.op = "mischief" /\ last'.status = "ok" /\ last'.sampled[1] = "isolation") =>
    /\ drawnCards' = WithoutFirst(drawnCards, "mischief") \o <<"isolation">>
    /\ drawnCards'[Len(drawnCards')] = "isolation"

\* C9: a bonus draw whose first card is 'isolation' appends that card alone; the
\* second card is not in the outcome, which ends with 'isolation'.
C9_FirstBonusHaltDropsSecond == [][C9_Step]_vars

\* the first bonus card was 'isolation', the second a card the outcome does not hold
C9_Witness ==
  /\ BonusDone
  /\ last.sampled[1] = "isolation"
  /\ last.sampled[2] # "isolation"
  /\ ~Includes(drawnCards, last.sampled[2])
  /\ Len(drawnCards) >= 2

----------------------------------------------------------------------------
(* C10 *)

C10_OriginalStep ==
  (last'.op = "mischief" /\ last'.status = "ok" /\ last'.sampled[1] # "isolation") =>
    drawnCards' = drawnCards \o last'.sampled

\* C10, as claimed: a bonus draw whose first card is not 'isolation' stores the
\* previous outcome, every card kept, followed by the two bonus cards.
C10_Original == [][C10_OriginalStep]_vars

C10_Step ==
  (last'.op = "mischief" /\ last'.status = "ok" /\ last'.sampled[1] # "isolation") =>
    /\ Len(last'.sampled) = 2
    /\ drawnCards' = WithoutFirst(drawnCards, "mischief") \o last'.sampled

\* C10, amended: a bonus draw whose first card is not 'isolation' stores the previous
\* outcome without its first 'mischief' (the other cards kept, in order) followed by
\* the two bonus cards; the outcome ends at the second when that is 'isolation'.
C10_BonusAppendsBothAfterRemoval == [][C10_Step]_vars

\* a bonus draw on an outcome with two 'mischief': one is left, then the two bonus cards
C10_Witness ==
  /\ BonusDone
  /\ last.sampled[1] # "isolation"
  /\ Len(drawnCards) >= 3
  /\ SubSeq(drawnCards, Len(drawnCards) - 1, Len(drawnCards)) = last.sampled
  /\ Includes(SubSeq(drawnCards, 1, Len(drawnCards) - 2), "mischief")

----------------------------------------------------------------------------
(* C11 *)

\* the bonus cards a successful bonus draw appended: the first alone when it is
\* 'isolation', else both
Appended(sampled) == IF sampled[1] = "isolation" THEN <<sampled[1]>> ELSE sampled

C11_Step ==
  last'.op = "mischief" =>
    IF last'.status = "ok"
    THEN MischiefButtonShown =>
           CountOf(drawnCards', "mischief") =
             CountOf(drawnCards, "mischief") - 1 + CountOf(Appended(last'.sampled), "mischief")
    ELSE /\ drawnCards' = drawnCards
         /\ last'.sampled = <<>>

----------------------------------------------------------------------------
(* C12 *)

----------------------------------------------------------------------------
(* C13 *)

\* a new outcome has just superseded the previous one
Superseded ==
  \/ DrawDone
  \/ BonusDone
  \/ last.op = "deck" /\ last.status = "ok"

\* C13: right after a draw, a bonus draw or a deck change stored a new outcome, the
\* selection state is the default one for that outcome: one 'acid' per 'chaos' drawn,
\* one 'force' per 'order' drawn and the reward 'jewelry', whatever was selected
\* against the previous outcome.
C13_SelectionsResetWithOutcome ==
  Superseded =>
    /\ chaosSelections = [i \in 1..CountOf(drawnCards, "chaos") |-> "acid"]
    /\ orderSelections = [i \in 1..CountOf(drawnCards, "order") |-> "force"]
    /\ coinSelection = "jewelry"

\* a bonus draw on an outcome that began with 'chaos', whose selection the previous
\* display offered: the card is kept, its selection is the default
C13_Witness ==
  /\ BonusDone
  /\ Len(drawnCards) >= 3
  /\ drawnCards[1] = "chaos"
  /\ chaosSelections = <<"acid">>
  /\ DropdownsShown("chaos") >= 1

----------------------------------------------------------------------------
(* C14 *)

\* C14, as claimed: the deck is non-empty and within the vocabulary in every
\* reachable state, as a custom configuration with no member is rejected.
C14_Original == deck # {} /\ deck \subseteq TAROT_CARDS_FULL

\* C14, amended: a deck change never fails: it installs the members it is given,
\* none included, with deckSize their number, and empties the outcome; the deck is
\* within the vocabulary in every reachable state.
C14_DeckChangeNeverFails ==
  /\ deck \subseteq TAROT_CARDS_FULL
  /\ deckSize = Cardinality(deck)
  /\ last.op = "deck" => (last.status = "ok" /\ drawnCards = <<>>)

\* the custom deck with no box checked was installed over a non-empty deck
C14_Witness ==
  /\ last.op = "deck"
  /\ last.status = "ok"
  /\ deck = {}
  /\ deckSize = 0

----------------------------------------------------------------------------
(* C15 *)

C15_Step ==
  last'.op \in {"draw", "mischief"} =>
    /\ deck' = deck
    /\ deckSize' = deckSize
    /\ \A i \in 1..Len(last'.sampled) : last'.sampled[i] \in deck
    /\ \A i \in 1..Len(drawnCards') : drawnCards'[i] \in deck

\* C15: a draw or a bonus draw leaves the deck's members and its size as they were,
\* and every card it samples, like every card of the outcome it stores, is a member
\* of the deck, however many cards were sampled before.
C15_SamplingWithReplacement == [][C15_Step]_vars

\* two cards were drawn from the custom deck of one card: the same card twice
C15_Witness ==
  /\ DrawDone
  /\ Cardinality(deck) = 1
  /\ deckSize = 1
  /\ last.count = Num(2)
  /\ Len(drawnCards) >= 2
  /\ drawnCards[1] = drawnCards[2]

----------------------------------------------------------------------------
(* C16 *)

RECURSIVE SumCounts(_, _)
SumCounts(records, k) ==
  IF k > Len(records) THEN 0 ELSE records[k].count + SumCounts(records, k + 1)

\* the drawn cards whose identifier has no rule
Unmapped(cards) == Cardinality({i \in 1..Len(cards) : cards[i] \notin TAROT_CARDS_FULL})

\* C16: for the outcome at hand, the counts of the records calculateEffects returns,
\* regular and curses together, plus the number of drawn cards with no rule, add up
\* to the length of the outcome; no record names a card with no rule; and the panel,
\* once rendered, shows one item per record with the record's count.
C16_TallyOfCounts ==
  LET effects == CalculateEffects(drawnCards)
      records == effects.regular \o effects.curses
  IN /\ SumCounts(records, 1) + Unmapped(drawnCards) = Len(drawnCards)
     /\ \A k \in 1..Len(records) : records[k].card \in TAROT_CARDS_FULL
     /\ last.op = "render" =>
          /\ Len(effectsList) = Len(records)
          /\ SumCounts(effectsList, 1) + Unmapped(drawnCards) = Len(drawnCards)

\* a rendered outcome of a card with no rule followed by a ruled card
C16_Witness ==
  /\ last.op = "render"
  /\ Len(drawnCards) = 2
  /\ drawnCards[1] \notin TAROT_CARDS_FULL
  /\ Unmapped(drawnCards) = 1
  /\ ~effectsEmpty
  /\ Len(effectsList) = 1
  /\ effectsList[1].card = drawnCards[2]
  /\ effectsList[1].count = 1

----------------------------------------------------------------------------
(* C17 *)

CurseFlagged == {"dusk", "end", "isolation", "monster", "mystery", "vulture"}

\* the positions of the records of card c in a list of records
RecordsOf(records, c) == {k \in 1..Len(records) : records[k].card = c}

\* C17: for the outcome at hand, every ruled card that was drawn has exactly one
\* record in the two lists calculateEffects returns, every other card none; the
\* record is in curses exactly when the card is curse-flagged (dusk, end, isolation,
\* monster, mystery, vulture), else in regular; and the rendered panel shows the
\* regular records first, then the curses, marked as such.
C17_OneRecordInOneList ==
  LET effects == CalculateEffects(drawnCards)
      regular == effects.regular
      curses == effects.curses
  IN /\ \A c \in Identifiers :
          /\ Cardinality(RecordsOf(regular, c)) + Cardinality(RecordsOf(curses, c)) =
               IF Includes(drawnCards, c) /\ c \in TAROT_CARDS_FULL THEN 1 ELSE 0
          /\ RecordsOf(curses, c) # {} => c \in CurseFlagged
          /\ RecordsOf(regular, c) # {} => c \notin CurseFlagged
     /\ last.op = "render" =>
          /\ Len(effectsList) = Len(regular) + Len(curses)
          /\ \A k \in 1..Len(effectsList) :
               /\ effectsList[k].isCurse <=> effectsList[k].card \in CurseFlagged
               /\ effectsList[k].isCurse <=> k > Len(regular)

\* a rendered outcome of a curse-flagged card followed by a card that is not: the
\* panel shows the second card first, then the curse
C17_Witness ==
  /\ last.op = "render"
  /\ Len(drawnCards) = 2
  /\ drawnCards[1] \in CurseFlagged
  /\ drawnCards[2] \in TAROT_CARDS_FULL \ CurseFlagged
  /\ Len(effectsList) = 2
  /\ effectsList[1].card = drawnCards[2]
  /\ ~effectsList[1].isCurse
  /\ effectsList[2].card = drawnCards[1]
  /\ effectsList[2].isCurse

----------------------------------------------------------------------------
(* C18 *)

LinearlyStacking == {"beginning", "champion", "day", "end", "lock", "monster"}

\* the magnitude the text of a linearly stacking card states for `count` cards
Magnitude(card, count) ==
  CASE card \in {"champion", "day"} -> Number(count)
    [] card \in {"beginning", "end"} -> Dice(2 * count, 10, FALSE)
    [] card = "lock" -> Dice(count, 3, FALSE)
    [] card = "monster" -> Dice(count, 4, FALSE)

\* C18: on the rendered panel, each linearly stacking card drawn count times has one
\* item, with that count, whose text states the magnitude k * count: a bonus of count
\* for champion and day, 2 * count d10 for beginning and end, count d3 for lock and
\* count d4 for monster; of these only end and monster are curses.
C18_LinearStacking ==
  last.op = "render" =>
    \A c \in LinearlyStacking :
      Includes(drawnCards, c) =>
        /\ Cardinality(RecordsOf(effectsList, c)) = 1
        /\ \A k \in RecordsOf(effectsList, c) :
             /\ effectsList[k].count = CountOf(drawnCards, c)
             /\ effectsList[k].description[2] = Magnitude(c, CountOf(drawnCards, c))
             /\ effectsList[k].isCurse <=> c \in {"end", "monster"}

\* three 'champion' rendered: one item of count 3, not a curse, with a bonus of 3
C18_Witness ==
  /\ last.op = "render"
  /\ drawnCards = <<"champion", "champion", "champion">>
  /\ Len(effectsList) = 1
  /\ effectsList[1].card = "champion"
  /\ effectsList[1].count = 3
  /\ ~effectsList[1].isCurse
  /\ effectsList[1].description = <<Word("champion"), Number(3)>>

----------------------------------------------------------------------------
(* C19 *)

\* a durations map as the set of its entries
Entries(durations) == {<<durations[k].key, durations[k].value>> : k \in 1..Len(durations)}

RECURSIVE SumValues(_, _)
SumValues(durations, k) ==
  IF k > Len(durations) THEN 0 ELSE durations[k].value + SumValues(durations, k + 1)

\* the list with the selections at positions i and j exchanged
Exchanged(list, i, j) == [list EXCEPT ![i] = list[j], ![j] = list[i]]

\* durations maps each type that occurs in the list, and no other, to the number of
\* its occurrences, and these add up to the length of the list
Tallies(durations, list) ==
  /\ \A k, m \in 1..Len(durations) : durations[k].key = durations[m].key => k = m
  /\ Entries(durations) = {<<list[i], CountOf(list, list[i])>> : i \in 1..Len(list)}
  /\ SumValues(durations, 1) = Len(list)

\* C19: calculateChaosDurations and calculateOrderDurations map each damage type of
\* the selection list to the number of times it occurs: only selected types are keys,
\* the tallies add up to the length of the list, and exchanging two selections leaves
\* the entries as they were.
C19_DurationsTallySelections ==
  /\ Tallies(CalculateChaosDurations(chaosSelections), chaosSelections)
  /\ Tallies(CalculateOrderDurations(orderSelections), orderSelections)
  /\ \A i, j \in 1..Len(chaosSelections) :
       Entries(CalculateChaosDurations(Exchanged(chaosSelections, i, j))) =
         Entries(CalculateChaosDurations(chaosSelections))
  /\ \A i, j \in 1..Len(orderSelections) :
       Entries(CalculateOrderDurations(Exchanged(orderSelections, i, j))) =
         Entries(CalculateOrderDurations(orderSelections))

\* three 'chaos' rendered with the selections acid, cold, acid: acid 2, cold 1
C19_Witness ==
  /\ last.op = "render"
  /\ chaosSelections = <<"acid", "cold", "acid">>
  /\ Entries(CalculateChaosDurations(chaosSelections)) = {<<"acid", 2>>, <<"cold", 1>>}
  /\ Len(effectsList) = 1
  /\ Len(effectsList[1].durations) = 2
  /\ effectsList[1].durations[1][1] = Word("acid")
  /\ effectsList[1].durations[2][1] = Word("cold")

----------------------------------------------------------------------------
(* C20 *)

\* the selections the durations of an item tally
SelectionsOf(item) ==
  CASE item.type = "chaos" -> chaosSelections
    [] item.type = "order" -> orderSelections
    [] OTHER -> <<>>

\* the tally of the j-th duration of item k: the selections of its damage type
TallyOf(k, j) ==
  Cardinality({i \in 1..Len(SelectionsOf(effectsList[k])) :
                 Word(SelectionsOf(effectsList[k])[i]) = effectsList[k].durations[j][1]})

\* the durations on the panel, in document order
DurationsShown ==
  {kj \in (1..Len(effectsList)) \X (1..(Len(chaosSelections) + Len(orderSelections))) :
     kj[2] <= Len(effectsList[kj[1]].durations)}

\* the dice of the durations that follow the j-th duration of item k
DiceAfter(k, j) ==
  LET later == {kj \in DurationsShown : kj[1] > k \/ (kj[1] = k /\ kj[2] > j)}
      dice == {kji \in later \X (1..(Len(chaosSelections) + Len(orderSelections))) :
                 kji[2] <= TallyOf(kji[1][1], kji[1][2])}
  IN Cardinality(dice)

\* The durations are rolled last: the faces the dice of the j-th duration of item k
\* rolled, as numbers.
FacesOf(k, j) ==
  LET end == last.rolls - DiceAfter(k, j)
  IN [i \in 1..TallyOf(k, j) |->
        LET pos == end - TallyOf(k, j) + i
        IN IF pos <= Len(last.sampled) /\ last.sampled[pos] = 59 THEN 12 ELSE 1]

RECURSIVE SumOf(_, _)
SumOf(faces, i) == IF i > Len(faces) THEN 0 ELSE faces[i] + SumOf(faces, i + 1)

HighestOf(faces) == CHOOSE f \in {faces[i] : i \in 1..Len(faces)} :
                      \A i \in 1..Len(faces) : faces[i] <= f

\* C20, as claimed: a duration of tally t is shown as t twelve-sided dice to be
\* added, and rolled as their sum, a value from t to 12 * t.
C20_Original ==
  \A kj \in DurationsShown :
    LET t == TallyOf(kj[1], kj[2])
        shown == effectsList[kj[1]].durations[kj[2]][2]
    IN /\ last.op = "render" => shown = Dice(t, 12, FALSE)
       /\ last.op = "roll" =>
            /\ shown = Number(SumOf(FacesOf(kj[1], kj[2]), 1))
            /\ t <= shown.q /\ shown.q <= 12 * t

\* C20, amended: a duration of tally t is shown as one twelve-sided die when t = 1
\* and as t twelve-sided dice of which the highest is kept ("kh1") when t > 1; it
\* is rolled as that die, or as the highest of the t dice, a value from 1 to 12.
C20_DurationKeepsHighest ==
  \A kj \in DurationsShown :
    LET t == TallyOf(kj[1], kj[2])
        shown == effectsList[kj[1]].durations[kj[2]][2]
    IN /\ t >= 1
       /\ last.op = "render" => shown = Dice(t, 12, t > 1)
       /\ last.op = "roll" =>
            /\ shown = Number(HighestOf(FacesOf(kj[1], kj[2])))
            /\ 1 <= shown.q /\ shown.q <= 12

\* two 'chaos' with the same damage type, rolled: the two dice rolled 1 and 12, the
\* duration is 12 and not 13
C20_Witness ==
  /\ last.op = "roll"
  /\ Len(chaosSelections) = 2
  /\ chaosSelections[1] = chaosSelections[2]
  /\ Len(effectsList) = 1
  /\ Len(effectsList[1].durations) = 1
  /\ FacesOf(1, 1) = <<1, 12>>
  /\ effectsList[1].durations[1][2] = Number(12)

----------------------------------------------------------------------------
(* C21 *)

\* the faces the first n values of the generator roll on dice of `sides` sides
Rolled(n, sides) ==
  [i \in 1..n |-> 1 + ((IF i <= Len(last.sampled) THEN last.sampled[i] ELSE 0) % sides)]

\* C21: rollDiceExpression of an expression with quantity q >= 1 and sides s >= 1
\* takes exactly q values of the generator, each a face from 1 to s, reports no
\* error, and returns the highest face when the expression ends in kh1 and the sum
\* of the faces otherwise.
C21_RollsSumOrHighest ==
  last.op = "rollDiceExpression" =>
    LET dice == effectsList[1].description[1]
        faces == Rolled(dice.q, dice.s)
    IN (dice.q >= 1 /\ dice.s >= 1) =>
         /\ last.rolls = dice.q
         /\ last.count = Num(0)
         /\ \A i \in 1..dice.q : 1 <= faces[i] /\ faces[i] <= dice.s
         /\ effectsList[2].description =
              <<Number(IF dice.kh THEN HighestOf(faces) ELSE SumOf(faces, 1))>>

\* 3d10kh1 with the rolls 2, 9 and 4 returned 9
C21_Witness ==
  /\ last.op = "rollDiceExpression"
  /\ effectsList[1].description = <<Dice(3, 10, TRUE)>>
  /\ Rolled(3, 10) = <<2, 9, 4>>
  /\ last.rolls = 3
  /\ effectsList[2].description = <<Number(9)>>

----------------------------------------------------------------------------
(* C22 *)

\* a token the pattern matches that parseDiceExpression rejects
Invalid(token) == token.t = "dice" /\ (token.q < 1 \/ token.s < 1)

\* the dice of the valid expressions among the first n tokens of a text
ValidDice(text, n) ==
  Cardinality({ij \in (1..n) \X (1..MaxQuantity) :
                 text[ij[1]].t = "dice" /\ ~Invalid(text[ij[1]]) /\ ij[2] <= text[ij[1]].q})

\* C22, as claimed: rollDiceInText returns an invalid expression of the text as it
\* was, reports a diagnostic for it and takes no value of the generator for it.
C22_Original ==
  last.op = "rollDiceInText" =>
    LET text == effectsList[1].description
        returned == effectsList[2].description
    IN /\ \A i \in 1..Len(text) : Invalid(text[i]) => returned[i] = text[i]
       /\ last.count = Num(Cardinality({i \in 1..Len(text) : Invalid(text[i])}))
       /\ last.rolls = ValidDice(text, Len(text))

\* C22, amended: rollDiceInText replaces an invalid expression of the text by 0,
\* reports one diagnostic for each and takes no value of the generator for it: the
\* values taken are those of the valid expressions.
C22_InvalidExpressionBecomesZero ==
  last.op = "rollDiceInText" =>
    LET text == effectsList[1].description
        returned == effectsList[2].description
    IN /\ Len(returned) = Len(text)
       /\ \A i \in 1..Len(text) : Invalid(text[i]) => returned[i] = Number(0)
       /\ last.count = Num(Cardinality({i \in 1..Len(text) : Invalid(text[i])}))
       /\ last.rolls = ValidDice(text, Len(text))

\* "2d0 0d6 2d6" rolled: two diagnostics, two values taken, "0 0" and the sum
C22_Witness ==
  /\ last.op = "rollDiceInText"
  /\ effectsList[1].description = <<Dice(2, 0, FALSE), Dice(0, 6, FALSE), Dice(2, 6, FALSE)>>
  /\ effectsList[2].description[1] = Number(0)
  /\ effectsList[2].description[2] = Number(0)
  /\ effectsList[2].description[3] = Number(Rolled(2, 6)[1] + Rolled(2, 6)[2])
  /\ last.count = Num(2)
  /\ last.rolls = 2

----------------------------------------------------------------------------
(* C23 *)

\* the cards sampled after the initial ones
Extension == SubSeq(last.sampled, last.count.v + 1, Len(last.sampled))

\* C23: when the initial cards hold m 'mystery' and no 'isolation', and the j-th
\* appended card is the first 'isolation', the outcome ends at that card and the
\* deck is not sampled again: j <= m cards were appended and the resolution made
\* n + j calls of the generator, not n + m.
C23_HaltStopsExtension ==
  (DrawDone /\ ~Includes(Initial, "isolation") /\ Includes(last.sampled, "isolation")) =>
    LET j == IndexOf(Extension, "isolation") + 1
    IN /\ j <= CountOf(Initial, "mystery")
       /\ Len(Extension) = j
       /\ last.rolls = last.count.v + j
       /\ drawnCards = last.sampled
       /\ drawnCards[Len(drawnCards)] = "isolation"

\* two 'mystery' drawn, the first appended card is 'isolation': the second
\* extension is not performed
C23_Witness ==
  /\ DrawDone
  /\ Initial = <<"mystery", "mystery">>
  /\ Extension = <<"isolation">>
  /\ last.rolls = 3
  /\ drawnCards = <<"mystery", "mystery", "isolation">>

----------------------------------------------------------------------------
(* C24 *)

\* C24, as claimed: a bonus draw whose first card is 'isolation' samples the deck
\* once: the second card is never drawn and the generator is advanced by one call.
C24_FirstBonusHaltSamplesOnce ==
  (BonusDone /\ last.sampled[1] = "isolation") =>
    /\ Len(last.sampled) = 1
    /\ last.rolls = 1

----------------------------------------------------------------------------
(* C25 *)

----------------------------------------------------------------------------
(* C26 *)

\* the faces the q values of the generator after the first `taken` roll on dice
\* of `sides` sides
RolledAfter(taken, q, sides) ==
  [k \in 1..q |->
     1 + ((IF taken + k <= Len(last.sampled) THEN last.sampled[taken + k] ELSE 0) % sides)]

\* what rollDiceExpression makes of an expression when `taken` values are consumed
Evaluation(dice, taken) ==
  IF Invalid(dice) THEN 0
  ELSE LET faces == RolledAfter(taken, dice.q, dice.s)
       IN IF dice.kh THEN HighestOf(faces) ELSE SumOf(faces, 1)

\* C26: rollDiceInText returns the text with every dice expression replaced by its
\* own evaluation, the expressions taking the values of the generator from left to
\* right, each from where the one before it stopped; everything else is returned as
\* it was, and a text without a dice expression is returned as it was with no value
\* of the generator taken.
C26_ExpressionsRolledLeftToRight ==
  last.op = "rollDiceInText" =>
    LET text == effectsList[1].description
        returned == effectsList[2].description
    IN /\ Len(returned) = Len(text)
       /\ \A i \in 1..Len(text) :
            returned[i] = IF text[i].t = "dice"
                          THEN Number(Evaluation(text[i], ValidDice(text, i - 1)))
                          ELSE text[i]
       /\ last.rolls = ValidDice(text, Len(text))
       /\ (\A i \in 1..Len(text) : text[i].t # "dice") => returned = text /\ last.rolls = 0

\* "2d6 damage 1d10kh1" with the generator rolling 3 and 5 on the d6, then 9 on the
\* d10, became "8 damage 9"
C26_Witness ==
  /\ last.op = "rollDiceInText"
  /\ effectsList[1].description = <<Dice(2, 6, FALSE), Word("damage"), Dice(1, 10, TRUE)>>
  /\ RolledAfter(0, 2, 6) = <<3, 5>>
  /\ RolledAfter(2, 1, 10) = <<9>>
  /\ effectsList[2].description = <<Number(8), Word("damage"), Number(9)>>
  /\ last.rolls = 3

----------------------------------------------------------------------------
(* C27 *)

\* a draw or a bonus draw has sampled and has not finished
Resolving == Suspended /\ last.op \in {"draw", "mischief"}

C27_Step ==
  \* the step that samples stores the outcome made of its samples, all of them
  \* members of the deck, which it leaves as it was
  /\ (last'.status = "await" /\ last'.op \in {"draw", "mischief"} /\ ~Suspended) =>
       /\ deck' = deck
       /\ deckSize' = deckSize
       /\ \A i \in 1..Len(last'.sampled) : last'.sampled[i] \in deck
       /\ \A i \in 1..Len(drawnCards') :
            \/ \E j \in 1..Len(last'.sampled) : drawnCards'[i] = last'.sampled[j]
            \/ \E j \in 1..Len(drawnCards) : drawnCards'[i] = drawnCards[j]
  \* from there to the end of the handler only the handler runs
  /\ Resolving =>
       /\ deck' = deck
       /\ deckSize' = deckSize
       /\ drawnCards' = drawnCards
       /\ last' = [last EXCEPT !.status = "ok"]
  \* the deck changes in deck changes only, which sample no card
  /\ deck' # deck => last'.op = "deck" /\ last'.sampled = <<>> /\ ~Suspended

\* C27: a draw or a bonus draw samples all its cards from the deck and stores its
\* outcome in one step that leaves the deck as it was, and from that step until the
\* handler has finished, its await included, no other handler runs: the deck is
\* replaced by deck changes only, none of which runs while a draw or a bonus draw
\* is under way.
C27_DeckFixedDuringResolution == [][C27_Step]_vars

\* a draw on the custom deck of 'coin' and 'order' is suspended at its await after
\* it sampled both and stored them; the panel is still the one of the deck change
C27_Witness ==
  /\ Resolving
  /\ last.op = "draw"
  /\ deck = {"coin", "order"}
  /\ last.sampled = <<"coin", "order">>
  /\ drawnCards = <<"coin", "order">>
  /\ effectsEmpty

----------------------------------------------------------------------------
(* C28 *)

----------------------------------------------------------------------------
(* C29 *)

\* C29, as claimed: once renderCards is called for a new outcome, no sprite made
\* for an earlier call is in the scroll container or in cardSprites: both hold
\* sprites of the latest call only, in every state and so when all callbacks are done.
C29_NewRenderCancelsOld ==
  /\ \A k \in 1..Len(cardSprites) : cardSprites[k].call = renderCalls
  /\ \A k \in 1..Len(children) : children[k].call = renderCalls

----------------------------------------------------------------------------
(* C30 *)

\* C30, as claimed: a card whose flip animation is running is where animate() put
\* it, at the scale animate() gave it and at z-index 0, and is not the hovered
\* card: CardHoverManager.update leaves it alone; and no card has _isAnimating
\* and _animationComplete both set.
C30_UpdateSparesAnimatingCards ==
  \A k \in 1..Len(cardSprites) :
    /\ ~(cardSprites[k].isAnimating /\ cardSprites[k].animationComplete)
    /\ (cardSprites[k].isAnimating /\ ~cardSprites[k].animationComplete) =>
         /\ cardSprites[k].position = "flight"
         /\ cardSprites[k].scale = "flip"
         /\ cardSprites[k].zIndex = 0
         /\ hoveredCard # Id(cardSprites[k])

====
